---- MODULE Spec2Model ----
(***************************************************************************)
(* Model of src/index.js (dailyEmail.js): one run reads bin/data.json,     *)
(* asks the chat-completion API for a new email body, sends it by mail     *)
(* and writes the updated data.json.  Runs are serialized by an external   *)
(* scheduler (cron), so a run only starts once the previous one has ended. *)
(*                                                                         *)
(* JavaScript values are tagged records [t, n, s, a] (the tag, and the     *)
(* number, string or elements the value holds); a text (file content or    *)
(* API reply) is a sequence of lexical tokens [k, s, n], so that           *)
(* JSON.parse and JSON.stringify are modelled by what they do to a text.   *)
(***************************************************************************)
EXTENDS Integers, Sequences, FiniteSets, TLC

(***************************************************************************)
(* Bounds of the model.                                                    *)
(***************************************************************************)
MaxRuns == 3

(***************************************************************************)
(* JavaScript values.                                                      *)
(***************************************************************************)
Value(tag, n, s, a) == [t |-> tag, n |-> n, s |-> s, a |-> a]
Undefined == Value("undefined", 0, "", <<>>)
Null == Value("null", 0, "", <<>>)
NaN == Value("NaN", 0, "", <<>>)
Num(n) == Value("num", n, "", <<>>)
Str(s) == Value("str", 0, s, <<>>)
Bool(b) == Value("bool", IF b THEN 1 ELSE 0, "", <<>>)
Arr(a) == Value("arr", 0, "", a)
\* An object is the sequence of its members in insertion order.
Obj(m) == Value("obj", 0, "", m)
Member(key, val) == [key |-> key, val |-> val]

\* obj[key] of an object value: the member's value, undefined when absent.
ObjGet(o, key) ==
  LET hits == SelectSeq(o.a, LAMBDA m : m.key = key)
  IN IF hits = <<>> THEN Undefined ELSE hits[1].val

ObjHas(o, key) == \E i \in 1..Len(o.a) : o.a[i].key = key

\* obj[key] = val: an existing key keeps its position, a new key goes last.
ObjSet(o, key, val) ==
  IF ObjHas(o, key)
  THEN LET i == CHOOSE j \in 1..Len(o.a) : o.a[j].key = key
       IN Obj(SubSeq(o.a, 1, i - 1) \o <<Member(key, val)>>
              \o SubSeq(o.a, i + 1, Len(o.a)))
  ELSE Obj(Append(o.a, Member(key, val)))

\* value.prop for any value that is not null or undefined: primitives and
\* arrays parsed from JSON carry none of the property names used here.
GetProp(val, key) == IF val.t = "obj" THEN ObjGet(val, key) ELSE Undefined

\* ToBoolean.
Truthy(val) ==
  CASE val.t = "undefined" -> FALSE
    [] val.t = "null" -> FALSE
    [] val.t = "NaN" -> FALSE
    [] val.t = "num" -> val.n # 0
    [] val.t = "str" -> val.s # ""
    [] val.t = "bool" -> val.n = 1
    [] OTHER -> TRUE

(***************************************************************************)
(* Texts: sequences of tokens.                                             *)
(***************************************************************************)
Token(kind, s, n) == [k |-> kind, s |-> s, n |-> n]
P(c) == Token("p", c, 0)
TStr(s) == Token("s", s, 0)
TNum(n) == Token("n", "", n)
TLit(w) == Token("l", w, 0)
\* a bare word that is no JSON token, as in a reply written in prose
TWord(w) == Token("x", w, 0)
Ws == Token("w", " ", 0)

IsWs(tok) == tok.k = "w"

RECURSIVE DropLeadingWs(_)
DropLeadingWs(text) ==
  IF text # <<>> /\ IsWs(Head(text)) THEN DropLeadingWs(Tail(text)) ELSE text

RECURSIVE DropTrailingWs(_)
DropTrailingWs(text) ==
  IF text # <<>> /\ IsWs(text[Len(text)])
  THEN DropTrailingWs(SubSeq(text, 1, Len(text) - 1))
  ELSE text

\* String.prototype.trim
Trim(text) == DropTrailingWs(DropLeadingWs(text))

(***************************************************************************)
(* JSON.parse: a recursive-descent parser over the tokens.  A result is    *)
(* [ok, val, rest]; ok = FALSE stands for the SyntaxError it throws.       *)
(***************************************************************************)
ParseFail == [ok |-> FALSE, val |-> Undefined, rest |-> <<>>]
ParseOk(val, rest) == [ok |-> TRUE, val |-> val, rest |-> rest]

RECURSIVE ParseValue(_)
RECURSIVE ParseMembers(_, _)
RECURSIVE ParseElements(_, _)

ParseValue(toks) ==
  IF toks = <<>> THEN ParseFail
  ELSE LET h == Head(toks)
           r == Tail(toks)
       IN CASE h.k = "s" -> ParseOk(Str(h.s), r)
            [] h.k = "n" -> ParseOk(Num(h.n), r)
            [] h.k = "l" ->
                 (CASE h.s = "null" -> ParseOk(Null, r)
                    [] h.s = "true" -> ParseOk(Bool(TRUE), r)
                    [] h.s = "false" -> ParseOk(Bool(FALSE), r)
                    [] OTHER -> ParseFail)
            [] h = P("{") ->
                 IF r # <<>> /\ Head(r) = P("}")
                 THEN ParseOk(Obj(<<>>), Tail(r))
                 ELSE ParseMembers(r, Obj(<<>>))
            [] h = P("[") ->
                 IF r # <<>> /\ Head(r) = P("]")
                 THEN ParseOk(Arr(<<>>), Tail(r))
                 ELSE ParseElements(r, <<>>)
            [] OTHER -> ParseFail

\* toks start at a member  "key" : value  of an object whose earlier
\* members are in acc; a repeated key takes the later value.
ParseMembers(toks, acc) ==
  IF Len(toks) < 2 \/ toks[1].k # "s" \/ toks[2] # P(":") THEN ParseFail
  ELSE LET pv == ParseValue(SubSeq(toks, 3, Len(toks)))
       IN IF ~pv.ok \/ pv.rest = <<>> THEN ParseFail
          ELSE LET acc2 == ObjSet(acc, toks[1].s, pv.val)
                   sep == Head(pv.rest)
               IN CASE sep = P("}") -> ParseOk(acc2, Tail(pv.rest))
                    [] sep = P(",") -> ParseMembers(Tail(pv.rest), acc2)
                    [] OTHER -> ParseFail

ParseElements(toks, acc) ==
  LET pv == ParseValue(toks)
  IN IF ~pv.ok \/ pv.rest = <<>> THEN ParseFail
     ELSE LET acc2 == Append(acc, pv.val)
              sep == Head(pv.rest)
          IN CASE sep = P("]") -> ParseOk(Arr(acc2), Tail(pv.rest))
               [] sep = P(",") -> ParseElements(Tail(pv.rest), acc2)
               [] OTHER -> ParseFail

\* JSON.parse(text): whitespace between tokens is insignificant, and the
\* whole text must be one value.
JSONparse(text) ==
  LET pv == ParseValue(SelectSeq(text, LAMBDA tok : ~IsWs(tok)))
  IN IF pv.ok /\ pv.rest = <<>> THEN pv ELSE ParseFail

(***************************************************************************)
(* JSON.stringify(value, null, 2).                                         *)
(***************************************************************************)
RECURSIVE Stringify(_)
RECURSIVE StringifyElems(_, _)
RECURSIVE StringifyMembers(_, _)

\* an array element: undefined is written as null
StringifyElems(a, first) ==
  IF a = <<>> THEN <<>>
  ELSE (IF first THEN <<>> ELSE <<P(",")>>) \o <<Ws>>
       \o (IF Head(a).t = "undefined" THEN <<TLit("null")>> ELSE Stringify(Head(a)))
       \o StringifyElems(Tail(a), FALSE)

\* an object member: one whose value is undefined is left out
StringifyMembers(m, first) ==
  IF m = <<>> THEN <<>>
  ELSE IF Head(m).val.t = "undefined" THEN StringifyMembers(Tail(m), first)
  ELSE (IF first THEN <<>> ELSE <<P(",")>>) \o <<Ws>>
       \o <<TStr(Head(m).key), P(":"), Ws>> \o Stringify(Head(m).val)
       \o StringifyMembers(Tail(m), FALSE)

Stringify(val) ==
  CASE val.t = "num" -> <<TNum(val.n)>>
    [] val.t = "NaN" -> <<TLit("null")>>
    [] val.t = "null" -> <<TLit("null")>>
    [] val.t = "str" -> <<TStr(val.s)>>
    [] val.t = "bool" -> <<TLit(IF val.n = 1 THEN "true" ELSE "false")>>
    [] val.t = "arr" ->
         IF val.a = <<>> THEN <<P("["), P("]")>>
         ELSE <<P("[")>> \o StringifyElems(val.a, TRUE) \o <<Ws, P("]")>>
    [] val.t = "obj" ->
         LET body == StringifyMembers(val.a, TRUE)
         IN IF body = <<>> THEN <<P("{"), P("}")>>
            ELSE <<P("{")>> \o body \o <<Ws, P("}")>>

(***************************************************************************)
(* The program's pure steps.                                               *)
(***************************************************************************)
\* let data = { count: 0, recent_emails: [] }
DefaultData ==
  Obj(<<Member("count", Num(0)), Member("recent_emails", Arr(<<>>))>>)

\* The file bin/data.json: absent, or present with a text.
AbsentStore == [exists |-> FALSE, text |-> <<>>]
StoreWith(text) == [exists |-> TRUE, text |-> text]

\* try { data = JSON.parse(fs.readFileSync(...)) } catch { keep the default }
LoadData(st) ==
  IF ~st.exists THEN DefaultData
  ELSE LET p == JSONparse(st.text)
       IN IF p.ok THEN p.val ELSE DefaultData

\* const { count, recent_emails } = data  throws a TypeError on null.
DestructureThrows(d) == d.t \in {"null", "undefined"}

\* value.length
JsLength(val) ==
  CASE val.t = "arr" -> Num(Len(val.a))
    [] val.t = "str" -> Num(Len(val.s))
    [] OTHER -> GetProp(val, "length")

\* recent_emails ? recent_emails.length : 0
RecentEmailsCount(recent) == IF Truthy(recent) THEN JsLength(recent) ELSE Num(0)

\* recent_emails_count > 0, for the kinds of value a length can be here
GreaterThanZero(val) ==
  CASE val.t = "num" -> val.n > 0
    [] val.t = "bool" -> val.n = 1
    [] val.t \in {"undefined", "null", "NaN"} -> FALSE

\* recent_emails.map(...) throws a TypeError unless recent_emails is an array.
PromptThrows(recent) ==
  GreaterThanZero(RecentEmailsCount(recent)) /\ recent.t # "arr"

\* recent_emails.map((emailBody, i) => `Email ${i + 1}: ${emailBody}`)
LastThreeEmailsText(recent) ==
  IF GreaterThanZero(RecentEmailsCount(recent))
  THEN [i \in 1..Len(recent.a) |-> [label |-> i, body |-> recent.a[i]]]
  ELSE <<>>

NoPrompt == [header |-> FALSE, emails |-> <<>>, count |-> Undefined]

\* the user message: the optional header line, the labelled emails, the count
UserPrompt(d) ==
  LET recent == GetProp(d, "recent_emails")
  IN [header |-> GreaterThanZero(RecentEmailsCount(recent)),
      emails |-> LastThreeEmailsText(recent),
      count |-> GetProp(d, "count")]

\* A string value holding the characters of a text.
RawString(text) == Value("rawstr", 0, "", text)

\* ExtractBody with the fallback the comment at line 121 describes: the raw
\* reply becomes the body when no email_body can be extracted.
ExtractBodyRawFallback(rawReply) ==
  LET p == JSONparse(rawReply)
  IN IF p.ok /\ p.val.t # "null" /\ Truthy(GetProp(p.val, "email_body"))
     THEN GetProp(p.val, "email_body")
     ELSE RawString(rawReply)

\* The parse block of generateNewEmail: the email_body of the parsed reply
\* when it is truthy; "" when JSON.parse throws, when reading the property
\* of null throws, or when the property is missing or falsy.
ExtractBody(rawReply) ==
  LET p == JSONparse(rawReply)
  IN IF ~p.ok THEN Str("")
     ELSE IF p.val.t = "null" THEN Str("")
     ELSE IF Truthy(GetProp(p.val, "email_body"))
          THEN GetProp(p.val, "email_body")
          ELSE Str("")

\* An outcome of openai.createChatCompletion: a thrown error (also a reply
\* without choices[0].message.content), or the content of the first choice.
ApiFailure == [ok |-> FALSE, text |-> <<>>]
ApiReply(text) == [ok |-> TRUE, text |-> text]

\* generateNewEmail(): null from the outer catch, else the extracted body.
GenerateNewEmail(reply) ==
  IF ~reply.ok THEN Null ELSE ExtractBody(Trim(reply.text))

\* the main function without its early return
MainAlwaysProceeds(body) == TRUE

\* if (!newEmail) { ...; return; }
MainHasContent(body) == Truthy(body)

\* sendEmail without its catch: a failed send rejects the main function
AfterSendRethrow(ok) == IF ok THEN "update" ELSE "crashed"

\* the main function sending again after a failed send
AfterSendRetry(ok) == IF ok THEN "update" ELSE "send"

\* sendEmail catches every error of the transport, so the main function
\* goes on to the update whether the mail was sent or not.
AfterSend(ok) == "update"

\* data.count + 1 computed and dropped: the count is never advanced
JsPlusOneDropped(val) == val

\* data.count += 1: x + 1 for the kinds of value a parsed count can be
JsPlusOne(val) ==
  CASE val.t = "num" -> Num(val.n + 1)
    [] val.t = "undefined" -> NaN
    [] val.t = "NaN" -> NaN
    [] val.t = "null" -> Num(1)
    [] val.t = "bool" -> Num(val.n + 1)
    [] val.t = "str" -> Str(val.s \o "1")

HistoryCap == 3

\* push without the shift: the history is never trimmed
PushNoShift(emails, body) == Append(emails, body)

\* unshift instead of push: the new body goes first and the last is dropped
UnshiftPop(emails, body) ==
  LET added == <<body>> \o emails
  IN IF Len(added) > HistoryCap THEN SubSeq(added, 1, Len(added) - 1) ELSE added

\* recent_emails.push(newEmail); if (length > 3) recent_emails.shift()
PushShift(emails, body) ==
  LET pushed == Append(emails, body)
  IN IF Len(pushed) > HistoryCap THEN Tail(pushed) ELSE pushed

\* Lines 174-180.  The assignment to a property of a primitive is ignored
\* (the script is not in strict mode); data.recent_emails.push throws a
\* TypeError unless recent_emails is an array.
UpdateData(d, body) ==
  LET d1 == IF d.t = "obj"
            THEN ObjSet(d, "count", JsPlusOne(ObjGet(d, "count")))
            ELSE d
      recent == GetProp(d1, "recent_emails")
  IN IF recent.t # "arr"
     THEN [threw |-> TRUE, data |-> d1]
     ELSE [threw |-> FALSE,
           data |-> ObjSet(d1, "recent_emails", Arr(PushShift(recent.a, body)))]

\* fs.writeFileSync(path, text): it replaces the file, or fails either
\* before the file is opened (file untouched) or after it was truncated.
WriteOutcomes == {"ok", "failUntouched", "failTruncated"}
WriteFile(st, text, outcome) ==
  CASE outcome = "ok" -> StoreWith(text)
    [] outcome = "failUntouched" -> st
    [] outcome = "failTruncated" -> StoreWith(<<>>)

(***************************************************************************)
(* The inputs of a run: what data.json may hold when the first run starts, *)
(* and what the chat-completion call may answer.                           *)
(***************************************************************************)
StoreObject(countVal, emails) ==
  Obj(<<Member("count", countVal), Member("recent_emails", emails)>>)

StoreText(n, bodies) ==
  Stringify(StoreObject(Num(n), Arr([i \in 1..Len(bodies) |-> Str(bodies[i])])))

InitialStores ==
  { AbsentStore,
    StoreWith(<<>>),
    StoreWith(<<TWord("oops")>>),
    StoreWith(<<P("{"), TStr("count"), P(":"), TNum(2), P(",")>>),
    StoreWith(<<P("{"), P("}")>>),
    StoreWith(<<TLit("null")>>),
    StoreWith(<<P("["), P("]")>>),
    StoreWith(<<TNum(5)>>),
    StoreWith(Stringify(Obj(<<Member("count", Num(2))>>))),
    StoreWith(Stringify(Obj(<<Member("recent_emails", Arr(<<Str("A")>>))>>))),
    StoreWith(Stringify(StoreObject(Str("2"), Arr(<<Str("A")>>)))),
    StoreWith(Stringify(StoreObject(Num(1), Str("A")))),
    StoreWith(Stringify(StoreObject(Num(1), Null))),
    StoreWith(StoreText(0, <<>>)),
    StoreWith(StoreText(2, <<"A", "B">>)),
    StoreWith(StoreText(5, <<"A", "B", "C">>)),
    StoreWith(StoreText(4, <<"A", "B", "C", "D">>)) }

BodyReply(body) == <<P("{"), TStr("email_body"), P(":"), body, P("}")>>

Replies ==
  { ApiFailure,
    ApiReply(<<Ws>> \o BodyReply(TStr("C")) \o <<Ws>>),
    ApiReply(BodyReply(TStr("D"))),
    ApiReply(<<P("{"), TStr("email_body"), P(":"), TStr("D"), P(","),
               TStr("note"), P(":"), TStr("x"), P("}")>>),
    ApiReply(<<P("{"), TStr("foo"), P(":"), TStr("bar"), P("}")>>),
    ApiReply(<<TWord("Dear"), Ws, TWord("Senator")>>),
    ApiReply(<<TWord("Here"), Ws>> \o BodyReply(TStr("C"))),
    ApiReply(BodyReply(TStr(""))),
    ApiReply(BodyReply(TNum(0))),
    ApiReply(BodyReply(TLit("null"))),
    ApiReply(<<TLit("null")>>),
    ApiReply(<<TStr("C")>>) }

(***************************************************************************)
(* State.                                                                  *)
(***************************************************************************)
VARIABLES
  store,        \* bin/data.json
  pc,           \* where the current run is
  data,         \* the variable data of the script
  userPrompt,   \* the user message built from data
  reply,        \* the outcome of the chat-completion call of this run
  newEmail,     \* what generateNewEmail returned
  sends,        \* the transporter.sendMail calls of this run: [body, ok]
  written,      \* the texts passed to fs.writeFileSync in this run
  writeFailed,  \* whether this run's writeFileSync threw
  steps,        \* the steps this run has taken, in order
  storeAtStart, \* data.json as it was when this run started
  loaded,       \* data as it was after the load step of this run
  runs,         \* runs started so far
  contentRuns,  \* runs so far whose generation returned content
  failedWrites, \* runs so far whose writeFileSync threw
  firstStore    \* data.json as it was before the first run

vars == <<store, pc, data, userPrompt, reply, newEmail, sends, written,
          writeFailed, steps, storeAtStart, loaded, runs, contentRuns,
          failedWrites, firstStore>>

Ended == {"done", "abort", "crashed"}

Init ==
  /\ store \in InitialStores
  /\ pc = "start"
  /\ data = DefaultData
  /\ userPrompt = NoPrompt
  /\ reply = ApiFailure
  /\ newEmail = Undefined
  /\ sends = <<>>
  /\ written = <<>>
  /\ writeFailed = FALSE
  /\ steps = <<>>
  /\ storeAtStart = store
  /\ loaded = DefaultData
  /\ runs = 1
  /\ contentRuns = 0
  /\ failedWrites = 0
  /\ firstStore = store

\* Lines 30-86: read data.json, destructure, build the prompt.  A TypeError
\* thrown at the top level of the script ends the process.
Load ==
  /\ pc = "start"
  /\ LET d == LoadData(store)
         threw == DestructureThrows(d) \/ PromptThrows(GetProp(d, "recent_emails"))
     IN /\ data' = d
        /\ loaded' = d
        /\ userPrompt' = IF threw THEN NoPrompt ELSE UserPrompt(d)
        /\ pc' = IF threw THEN "crashed" ELSE "generate"
  /\ steps' = Append(steps, "LOAD")
  /\ UNCHANGED <<store, reply, newEmail, sends, written, writeFailed,
                 storeAtStart, runs, contentRuns, failedWrites, firstStore>>

\* Lines 163-168 with generateNewEmail (96-130): one chat-completion call,
\* then the early return when nothing usable came back.
Generate ==
  /\ pc = "generate"
  /\ \E r \in Replies :
       LET body == GenerateNewEmail(r)
       IN /\ reply' = r
          /\ newEmail' = body
          /\ pc' = IF MainHasContent(body) THEN "send" ELSE "abort"
          /\ contentRuns' = IF Truthy(body) THEN contentRuns + 1 ELSE contentRuns
  /\ steps' = Append(steps, "GENERATE")
  /\ UNCHANGED <<store, data, userPrompt, sends, written, writeFailed,
                 storeAtStart, loaded, runs, failedWrites, firstStore>>

\* Line 171 with sendEmail (135-158): one sendMail call, which succeeds or
\* throws into the catch of sendEmail.
Send ==
  /\ pc = "send"
  /\ \E ok \in BOOLEAN :
       /\ sends' = Append(sends, [body |-> newEmail, ok |-> ok])
       /\ pc' = AfterSend(ok)
  /\ steps' = Append(steps, "SEND")
  /\ UNCHANGED <<store, data, userPrompt, reply, newEmail, written, writeFailed,
                 storeAtStart, loaded, runs, contentRuns, failedWrites,
                 firstStore>>

\* Lines 173-188: update data and write it back.  A TypeError thrown by the
\* update rejects the promise of the main function, unhandled.
UpdateState ==
  /\ pc = "update"
  /\ LET u == UpdateData(data, newEmail)
     IN /\ data' = u.data
        /\ IF u.threw
           THEN /\ pc' = "crashed"
                /\ UNCHANGED <<store, written, writeFailed, failedWrites>>
           ELSE \E w \in WriteOutcomes :
                  /\ pc' = "done"
                  /\ written' = Append(written, Stringify(u.data))
                  /\ store' = WriteFile(store, Stringify(u.data), w)
                  /\ writeFailed' = (w # "ok")
                  /\ failedWrites' = IF w = "ok" THEN failedWrites
                                     ELSE failedWrites + 1
  /\ steps' = Append(steps, "UPDATE_STATE")
  /\ UNCHANGED <<userPrompt, reply, newEmail, sends, storeAtStart, loaded,
                 runs, contentRuns, firstStore>>

\* The scheduler starts the next run once this one has ended.
NextRun ==
  /\ pc \in Ended
  /\ runs < MaxRuns
  /\ runs' = runs + 1
  /\ pc' = "start"
  /\ data' = DefaultData
  /\ userPrompt' = NoPrompt
  /\ reply' = ApiFailure
  /\ newEmail' = Undefined
  /\ sends' = <<>>
  /\ written' = <<>>
  /\ writeFailed' = FALSE
  /\ steps' = <<>>
  /\ storeAtStart' = store
  /\ loaded' = DefaultData
  /\ UNCHANGED <<store, contentRuns, failedWrites, firstStore>>

Next == Load \/ Generate \/ Send \/ UpdateState \/ NextRun

Spec == Init /\ [][Next]_vars

(***************************************************************************)
(* Vocabulary of the properties.                                           *)
(***************************************************************************)
Took(step) == \E i \in 1..Len(steps) : steps[i] = step

IsPrefix(a, b) == Len(a) <= Len(b) /\ a = SubSeq(b, 1, Len(a))
IsSuffix(a, b) == Len(a) <= Len(b) /\ a = SubSeq(b, Len(b) - Len(a) + 1, Len(b))
LastN(seq, n) == IF Len(seq) <= n THEN seq ELSE SubSeq(seq, Len(seq) - n + 1, Len(seq))
Front(seq) == SubSeq(seq, 1, Len(seq) - 1)
Elems(seq) == {seq[i] : i \in 1..Len(seq)}

Parses(st) == st.exists /\ JSONparse(st.text).ok
CountOf(st) == GetProp(JSONparse(st.text).val, "count")
EmailsOf(st) == GetProp(JSONparse(st.text).val, "recent_emails")

\* data.json holds { count: <non-negative integer>, recent_emails: [<string>...] }
ValidStore(st) ==
  /\ Parses(st)
  /\ JSONparse(st.text).val.t = "obj"
  /\ CountOf(st).t = "num" /\ CountOf(st).n >= 0
  /\ EmailsOf(st).t = "arr"
  /\ \A i \in 1..Len(EmailsOf(st).a) : EmailsOf(st).a[i].t = "str"

\* data.json is missing, is not JSON, or is JSON without the expected keys
MalformedStore(st) ==
  \/ ~st.exists
  \/ ~JSONparse(st.text).ok
  \/ JSONparse(st.text).val.t # "obj"
  \/ ~ObjHas(JSONparse(st.text).val, "count")
  \/ ~ObjHas(JSONparse(st.text).val, "recent_emails")

\* the reply is JSON for an object with the key email_body
HasBodyKey(r) ==
  /\ r.ok /\ JSONparse(r.text).ok
  /\ JSONparse(r.text).val.t = "obj"
  /\ ObjHas(JSONparse(r.text).val, "email_body")
BodyKey(r) == ObjGet(JSONparse(r.text).val, "email_body")

\* the API call failed, the reply is not JSON, or it has no usable email_body
NoUsableContent(r) == ~HasBodyKey(r) \/ ~Truthy(BodyKey(r))

(***************************************************************************)
(* Properties.                                                             *)
(***************************************************************************)

C2_WrittenHistoryAtMostThree ==
  written # <<>> =>
    LET out == GetProp(JSONparse(written[1]).val, "recent_emails").a
        had == GetProp(loaded, "recent_emails").a
    IN /\ Len(out) <= 3
       /\ out = LastN(Append(had, newEmail), 3)

\* C3: when data.json is missing, is not JSON, or is JSON without the keys
\* count and recent_emails, the loaded state is { count: 0, recent_emails: [] }
\* and the run raises no error, at the load or later.
C3_MalformedStoreYieldsDefault ==
  (Took("LOAD") /\ MalformedStore(storeAtStart)) =>
    /\ loaded = DefaultData
    /\ pc # "crashed"

C5_RunAdvancesStore ==
  (pc = "done" /\ ~writeFailed /\ ValidStore(storeAtStart)
     /\ Len(EmailsOf(storeAtStart).a) <= 3) =>
    /\ ValidStore(store)
    /\ CountOf(store) = Num(CountOf(storeAtStart).n + 1)
    /\ EmailsOf(store).a = LastN(Append(EmailsOf(storeAtStart).a, newEmail), 3)
    /\ (storeAtStart = StoreWith(StoreText(2, <<"A", "B">>)) /\ newEmail = Str("C")) =>
         /\ store = StoreWith(StoreText(3, <<"A", "B", "C">>))
         /\ Len(sends) = 1 /\ sends[1].body = Str("C")
    /\ (storeAtStart = StoreWith(StoreText(5, <<"A", "B", "C">>)) /\ newEmail = Str("D")) =>
         store = StoreWith(StoreText(6, <<"B", "C", "D">>))

C5_Witness ==
  /\ pc = "done" /\ ~writeFailed
  /\ storeAtStart = StoreWith(StoreText(5, <<"A", "B", "C">>))
  /\ newEmail = Str("D")
  /\ store = StoreWith(StoreText(6, <<"B", "C", "D">>))

\* C6: after a failed send the run goes on to the update of data and the
\* write, as after a successful send: the update step is taken, and when it
\* completes writeFileSync was called once with the body last in the
\* history and, from a valid store, the count advanced by one; from a valid
\* store it always completes.
C6_FailedSendStillPersists ==
  (Len(sends) = 1 /\ ~sends[1].ok) =>
    /\ pc \in {"update", "done", "crashed"}
    /\ pc # "update" => Took("UPDATE_STATE")
    /\ ValidStore(storeAtStart) => pc # "crashed"
    /\ pc = "done" =>
         /\ Len(written) = 1
         /\ ValidStore(storeAtStart) =>
              GetProp(JSONparse(written[1]).val, "count")
                = Num(CountOf(storeAtStart).n + 1)
         /\ LET out == GetProp(JSONparse(written[1]).val, "recent_emails").a
            IN out[Len(out)] = newEmail
         /\ ~writeFailed => store = StoreWith(written[1])

C6_Witness ==
  /\ pc = "done" /\ ~writeFailed
  /\ Len(sends) = 1 /\ ~sends[1].ok
  /\ storeAtStart = StoreWith(StoreText(2, <<"A", "B">>))
  /\ store = StoreWith(StoreText(3, <<"A", "B", "C">>))

\* C7: whatever the store holds and whatever the API, the mail relay and
\* the write do, the run ends in END or ABORT: no error escapes uncaught.
C7_NoUncaughtError == pc # "crashed"

\* C8: the steps of a run are taken in the order LOAD, GENERATE, SEND,
\* UPDATE_STATE, each at most once: at most one send attempt and one write,
\* a send only after generation returned content, a write only after the
\* send attempt.
C8_StepsInOrderOnce ==
  /\ IsPrefix(steps, <<"LOAD", "GENERATE", "SEND", "UPDATE_STATE">>)
  /\ Len(sends) <= 1
  /\ Len(written) <= 1
  /\ Took("SEND") <=> Len(sends) = 1
  /\ sends # <<>> => (Took("GENERATE") /\ Truthy(newEmail) /\ sends[1].body = newEmail)
  /\ written # <<>> => (Took("UPDATE_STATE") /\ Len(sends) = 1)
  /\ pc = "send" => (Took("GENERATE") /\ Truthy(newEmail))

C8_Witness ==
  /\ pc = "done"
  /\ steps = <<"LOAD", "GENERATE", "SEND", "UPDATE_STATE">>
  /\ Len(sends) = 1 /\ ~sends[1].ok
  /\ Len(written) = 1

C10_WrittenHistoryIsLoadedPlusSent ==
  written # <<>> =>
    LET out == GetProp(JSONparse(written[1]).val, "recent_emails").a
        had == GetProp(loaded, "recent_emails").a
    IN /\ Len(sends) = 1
       /\ out # <<>>
       /\ out[Len(out)] = sends[1].body
       /\ IsSuffix(Front(out), had)
       /\ Elems(out) \subseteq Elems(had) \cup {sends[1].body}

C10_Witness ==
  /\ written # <<>>
  /\ loaded = StoreObject(Num(5), Arr(<<Str("A"), Str("B"), Str("C")>>))
  /\ GetProp(JSONparse(written[1]).val, "recent_emails")
       = Arr(<<Str("B"), Str("C"), Str("D")>>)
  /\ ~sends[1].ok

====
